---- MODULE Spec2Model ----
(***************************************************************************)
(* The clippy plugin (src/plugins/clippy.js): a mention notification is    *)
(* handled by one asynchronous run that rebuilds the thread as a chat      *)
(* transcript, applies the in-thread directives, trims the context, calls  *)
(* the completion service and posts the reply.                             *)
(*                                                                         *)
(* JavaScript strings are TLA+ strings; a character is a string of length  *)
(* one.                                                                    *)
(***************************************************************************)
EXTENDS Integers, Sequences, FiniteSets, TLC

(***************************************************************************)
(* String primitives of the JavaScript runtime used by the plugin.         *)
(***************************************************************************)
CharAt(s, i) == SubSeq(s, i, i)

DropFirst(s, n) == SubSeq(s, n + 1, Len(s))

\* String.prototype.startsWith
StartsWith(s, p) == Len(p) <= Len(s) /\ SubSeq(s, 1, Len(p)) = p

\* String.prototype.endsWith
EndsWith(s, p) == Len(p) <= Len(s) /\ SubSeq(s, Len(s) - Len(p) + 1, Len(s)) = p

\* Whether sub occurs in s at (1-based) position i.
MatchAt(s, sub, i) == i >= 1 /\ i + Len(sub) - 1 <= Len(s) /\ SubSeq(s, i, i + Len(sub) - 1) = sub

\* String.prototype.includes
Includes(s, sub) == \E i \in 1..(Len(s) + 1) : MatchAt(s, sub, i)

\* String.prototype.indexOf from position `from`, 1-based; 0 when absent.
IndexFrom(s, sub, from) ==
    LET hits == {i \in from..(Len(s) + 1) : MatchAt(s, sub, i)}
    IN IF hits = {} THEN 0 ELSE CHOOSE i \in hits : \A j \in hits : i <= j

IndexOf(s, sub) == IndexFrom(s, sub, 1)

\* String.prototype.split on a one-character separator.
RECURSIVE Split(_, _)
Split(s, sep) ==
    LET i == IndexOf(s, sep)
    IN IF i = 0 THEN <<s>>
       ELSE <<SubSeq(s, 1, i - 1)>> \o Split(DropFirst(s, i), sep)

\* Array.prototype.join
RECURSIVE Join(_, _)
Join(parts, sep) ==
    IF parts = <<>> THEN ""
    ELSE IF Len(parts) = 1 THEN parts[1]
    ELSE parts[1] \o sep \o Join(Tail(parts), sep)

LowerLetters == "abcdefghijklmnopqrstuvwxyz"
UpperLetters == "ABCDEFGHIJKLMNOPQRSTUVWXYZ"
DigitChars == "0123456789"

CharsOf(s) == {CharAt(s, i) : i \in 1..Len(s)}

\* \w of a JavaScript regular expression
WordChars == CharsOf(LowerLetters) \cup CharsOf(UpperLetters) \cup CharsOf(DigitChars) \cup {"_"}

\* [a-zA-Z0-9_-]
IdChars == WordChars \cup {"-"}

\* The white space String.prototype.trim removes (the part that can occur here).
WhiteSpace == {" ", "\n", "\t", "\r"}

\* The line terminators "." of a regular expression does not match.
LineTerminators == {"\n", "\r"}

RECURSIVE TrimStart(_)
TrimStart(s) ==
    IF Len(s) > 0 /\ CharAt(s, 1) \in WhiteSpace THEN TrimStart(DropFirst(s, 1)) ELSE s

RECURSIVE TrimEnd(_)
TrimEnd(s) ==
    IF Len(s) > 0 /\ CharAt(s, Len(s)) \in WhiteSpace THEN TrimEnd(SubSeq(s, 1, Len(s) - 1)) ELSE s

\* String.prototype.trim
Trim(s) == TrimEnd(TrimStart(s))

LowerChar(c) ==
    IF c \in CharsOf(UpperLetters)
    THEN CharAt(LowerLetters, IndexOf(UpperLetters, c))
    ELSE c

\* String.prototype.toLowerCase
RECURSIVE ToLowerCase(_)
ToLowerCase(s) ==
    IF s = "" THEN "" ELSE LowerChar(CharAt(s, 1)) \o ToLowerCase(DropFirst(s, 1))

\* s.replace(/[^...]/g, ''): keeps the characters of `keep`.
RECURSIVE KeepChars(_, _)
KeepChars(s, keep) ==
    IF s = "" THEN ""
    ELSE (IF CharAt(s, 1) \in keep THEN CharAt(s, 1) ELSE "") \o KeepChars(DropFirst(s, 1), keep)

Min(a, b) == IF a <= b THEN a ELSE b

\* String.prototype.substring(start, end) with 0-based arguments: clamped, and
\* swapped when start > end.
JsSubstring(s, start, end) ==
    LET a == Min(IF start < 0 THEN 0 ELSE start, Len(s))
        b == Min(IF end < 0 THEN 0 ELSE end, Len(s))
    IN IF a <= b THEN SubSeq(s, a + 1, b) ELSE SubSeq(s, b + 1, a)

\* No line terminator in s[a..b]: what a regular expression's .* can run over.
DotRun(s, a, b) == \A i \in a..b : CharAt(s, i) \notin LineTerminators

\* The number of consecutive characters of `class` in s from position i.
RECURSIVE RunLength(_, _, _)
RunLength(s, i, class) ==
    IF i <= Len(s) /\ CharAt(s, i) \in class THEN 1 + RunLength(s, i + 1, class) ELSE 0

(***************************************************************************)
(* Program constants.                                                      *)
(***************************************************************************)
\* {1,64} of the mention pattern
MaxMentionLen == 64

\* substring(0, 64) of the name sanitizer
MaxNameLen == 64

\* messages.length > 5 in limit_chars
minMessageCount == 5

\* process.env.OPENROUTER_CHARACTER_LIMIT || 25000
default_character_limit == 25000

\* The contents of system_message.txt, read when the module is loaded.
default_system_message == "You are Clippy."

system_message_complement ==
    "\nYou're talking in a forum, and your answers should follow the markdown format, without any links or images.\nAll usernames are prefixed with an '@' character.\n\nYour username in the forum is 'clippy'."

(***************************************************************************)
(* removeMentions: content.replace(/(^|\W)(@[a-zA-Z0-9_-]{1,64})/g, '$1$2') *)
(***************************************************************************)
\* The match of the pattern that starts at position p, as <<$1, $2>>, or <<>>.
\* The alternative ^ is tried first and matches at the start of the text only.
MentionMatchAt(s, p) ==
    LET n1 == Min(RunLength(s, p + 1, IdChars), MaxMentionLen)
        n2 == Min(RunLength(s, p + 2, IdChars), MaxMentionLen)
    IN IF p = 1 /\ CharAt(s, 1) = "@" /\ n1 >= 1
       THEN <<"", SubSeq(s, 1, 1 + n1)>>
       ELSE IF p + 1 <= Len(s) /\ CharAt(s, p) \notin WordChars
               /\ CharAt(s, p + 1) = "@" /\ n2 >= 1
       THEN <<CharAt(s, p), SubSeq(s, p + 1, p + 1 + n2)>>
       ELSE <<>>

\* The replacement string '$1$2'.
MentionReplacement(g) == g[1] \o g[2]

RECURSIVE ReplaceMentionsFrom(_, _)
ReplaceMentionsFrom(s, p) ==
    IF p > Len(s) THEN ""
    ELSE LET g == MentionMatchAt(s, p)
         IN IF g = <<>>
            THEN CharAt(s, p) \o ReplaceMentionsFrom(s, p + 1)
            ELSE MentionReplacement(g) \o ReplaceMentionsFrom(s, p + Len(g[1]) + Len(g[2]))

removeMentions(content) == ReplaceMentionsFrom(content, 1)

(***************************************************************************)
(* generateContent's post-processing: content.replace(/<\|.*\|>$/, '')     *)
(***************************************************************************)
StripSentinel(content) ==
    LET q == Len(content) - 1
        starts == {p \in 1..Len(content) :
                      /\ MatchAt(content, "<|", p)
                      /\ q >= p + 2
                      /\ MatchAt(content, "|>", q)
                      /\ DotRun(content, p + 2, q - 1)}
    IN IF starts = {} THEN content
       ELSE SubSeq(content, 1, (CHOOSE p \in starts : \A o \in starts : p <= o) - 1)

(***************************************************************************)
(* convertHtmlToMarkdown's workaround:                                     *)
(*   markdown.replace(/!\[(.*?)\]\((.*?)\)/g, (match, altText) => ...)     *)
(***************************************************************************)
\* The match that starts at p as <<whole match, altText>>, or <<>>.
ImageMatchAt(s, p) ==
    LET a == IndexFrom(s, "](", p + 2)
        b == IF a = 0 THEN 0 ELSE IndexFrom(s, ")", a + 2)
    IN IF MatchAt(s, "![", p) /\ a # 0 /\ b # 0 /\ DotRun(s, p + 2, b - 1)
       THEN <<SubSeq(s, p, b), SubSeq(s, p + 2, a - 1)>>
       ELSE <<>>

ImageReplacement(match, altText) ==
    IF StartsWith(altText, ":") /\ EndsWith(altText, ":")
    THEN JsSubstring(altText, 1, Len(altText) - 1)
    ELSE match

RECURSIVE ReplaceImagesFrom(_, _)
ReplaceImagesFrom(s, p) ==
    IF p > Len(s) THEN ""
    ELSE LET g == ImageMatchAt(s, p)
         IN IF g = <<>>
            THEN CharAt(s, p) \o ReplaceImagesFrom(s, p + 1)
            ELSE ImageReplacement(g[1], g[2]) \o ReplaceImagesFrom(s, p + Len(g[1]))

\* nhm.translate is the external converter, given by its table on the post
\* contents of this model: [html, markdown] pairs.
Pages ==
    { [html |-> "<p>hello</p>", markdown |-> "hello"],
      [html |-> "<p>ok <img alt=':smile:' src='s.png'></p>", markdown |-> "ok ![:smile:](s.png)"],
      [html |-> "<p>bye<br>#clearcontext</p>", markdown |-> "bye  \n#clearcontext"],
      [html |-> "<p>#system_message(Be terse.)</p>", markdown |-> "#system_message(Be terse.)"],
      [html |-> "<p>#clearcontext #system_message (Be kind.)<br>thanks</p>",
       markdown |-> "#clearcontext #system_message (Be kind.)  \nthanks"],
      [html |-> "<p>#system_message(Be terse.)</p><p> </p><p>#system_message(Be kind.)</p>",
       markdown |-> "#system_message(Be terse.)\n\n \n\n#system_message(Be kind.)"],
      [html |-> "<p>@clippy hi</p>", markdown |-> "@clippy hi"],
      [html |-> "<p>#show_system_message #clearcontext #system_message(Be bold.)</p>",
       markdown |-> "#show_system_message #clearcontext #system_message(Be bold.)"],
      [html |-> "<p>@clippy #show_system_message</p>", markdown |-> "@clippy #show_system_message"] }

NhmTranslate(htmlString) == (CHOOSE e \in Pages : e.html = htmlString).markdown

convertHtmlToMarkdown(htmlString) == ReplaceImagesFrom(NhmTranslate(htmlString), 1)

(***************************************************************************)
(* The per-post parsing of the handler.                                    *)
(***************************************************************************)
\* l.split(' ').some(word => word.startsWith('#'))
IsCommandLine(l) ==
    LET words == Split(l, " ")
    IN \E i \in 1..Len(words) : StartsWith(words[i], "#")

\* The lines pushed to commands, in order.
CommandLines(markdown) == SelectSeq(Split(markdown, "\n"), IsCommandLine)

\* The lines pushed to text, joined: text.join('\n').
ProseText(markdown) ==
    LET IsProse(l) == ~IsCommandLine(l)
    IN Join(SelectSeq(Split(markdown, "\n"), IsProse), "\n")

\* SanitizedName without .substring(0, 64)
SanitizedName_uncapped(author) ==
    LET stripped == KeepChars(author, IdChars)
    IN IF Len(stripped) = 0 THEN "user" ELSE stripped

\* p.author.replace(/[^a-zA-Z0-9_-]/g, '').substring(0, 64), 'user' when empty
SanitizedName(author) ==
    LET stripped == JsSubstring(KeepChars(author, IdChars), 0, MaxNameLen)
    IN IF Len(stripped) = 0 THEN "user" ELSE stripped

\* RoleOf without .toLowerCase()
RoleOf_exact(sanitizedName) ==
    IF Trim(sanitizedName) = "clippy" THEN "assistant" ELSE "user"

\* sanitizedName.toLowerCase().trim() == 'clippy' ? 'assistant' : 'user'
RoleOf(sanitizedName) ==
    IF Trim(ToLowerCase(sanitizedName)) = "clippy" THEN "assistant" ELSE "user"

\* c.includes("#clearcontext")
IsClearContext(c) == Includes(c, "#clearcontext")

\* c.match(/#system_message ?\((.*)\)/): <<match[1]>>, or <<>> when null.
SystemMessageMatch(c) ==
    LET lit == "#system_message"
        Open(p) == IF MatchAt(c, " (", p + Len(lit)) THEN p + Len(lit) + 1
                   ELSE IF MatchAt(c, "(", p + Len(lit)) THEN p + Len(lit)
                   ELSE 0
        \* greedy .* then \): the last ")" the run of non-terminators reaches
        Close(o) == LET ends == {q \in (o + 1)..Len(c) :
                                    CharAt(c, q) = ")" /\ DotRun(c, o + 1, q - 1)}
                    IN IF ends = {} THEN 0
                       ELSE CHOOSE q \in ends : \A e \in ends : q >= e
        starts == {p \in 1..Len(c) :
                      MatchAt(c, lit, p) /\ Open(p) # 0 /\ Close(Open(p)) # 0}
    IN IF starts = {} THEN <<>>
       ELSE LET p == CHOOSE x \in starts : \A y \in starts : x <= y
                o == Open(p)
            IN <<SubSeq(c, o + 1, Close(o) - 1)>>

(***************************************************************************)
(* count_chars and limit_chars.                                            *)
(***************************************************************************)
RECURSIVE count_chars(_)
count_chars(messages) ==
    IF messages = <<>> THEN 0
    ELSE Len(messages[1].content) + count_chars(Tail(messages))

\* count_chars(messages) > limit (a limit taken from the environment is a
\* numeric string, which the comparison converts to its number)
Exceeds(total, limit) == total > limit

\* limit_chars with  messages.length >= 5
RECURSIVE limit_chars_floor(_, _)
limit_chars_floor(messages, limit) ==
    IF Exceeds(count_chars(messages), limit) /\ Len(messages) >= minMessageCount
    THEN limit_chars_floor(Tail(messages), limit)
    ELSE messages

\* limit_chars with  messages.pop()
RECURSIVE limit_chars_newest(_, _)
limit_chars_newest(messages, limit) ==
    IF Exceeds(count_chars(messages), limit) /\ Len(messages) > minMessageCount
    THEN limit_chars_newest(SubSeq(messages, 1, Len(messages) - 1), limit)
    ELSE messages

\* limit_chars with  if  in place of  while
limit_chars_once(messages, limit) ==
    IF Exceeds(count_chars(messages), limit) /\ Len(messages) > minMessageCount
    THEN Tail(messages)
    ELSE messages

RECURSIVE limit_chars(_, _)
limit_chars(messages, limit) ==
    IF Exceeds(count_chars(messages), limit) /\ Len(messages) > minMessageCount
    THEN limit_chars(Tail(messages), limit)
    ELSE messages

(***************************************************************************)
(* The instruction store: the file system_message_<topic_id>.txt of each   *)
(* topic, <<>> when there is no such file, <<text>> when it holds text.    *)
(***************************************************************************)
Topics == {"t1", "t2"}

\* get_system_message that forgets the override
get_system_message_default(files, topic_id) == default_system_message

get_system_message(files, topic_id) ==
    IF files[topic_id] = <<>> THEN default_system_message ELSE files[topic_id][1]

\* set_system_message that appends to the file instead of replacing it
set_system_message_append(files, topic_id, message) ==
    [files EXCEPT ![topic_id] = <<(IF @ = <<>> THEN "" ELSE @[1]) \o message>>]

\* set_system_message whose file name leaves out the topic
set_system_message_shared(files, topic_id, message) ==
    [t \in DOMAIN files |-> <<message>>]

set_system_message(files, topic_id, message) ==
    [files EXCEPT ![topic_id] = <<message>>]

format_system_message(files, topic_id) ==
    [role |-> "system",
     content |-> get_system_message(files, topic_id) \o "\n" \o system_message_complement]

(***************************************************************************)
(* The walk over contextPosts (handler, lines 168-218).  The accumulator   *)
(* holds the message list, the files, and how many resets and writes were  *)
(* made; okWrites is the number of fs.writeFileSync calls that succeed     *)
(* before one throws (a number the walk never reaches when none throws).   *)
(* lines records, for each command line of the post at hand, how many      *)
(* resets and writes the line made.                                        *)
(***************************************************************************)
\* if (c.includes("#clearcontext")) messages = [];
ClearStep(c, acc) ==
    IF IsClearContext(c) THEN [acc EXCEPT !.messages = <<>>, !.cleared = @ + 1] ELSE acc

\* SetStep that writes the first directive of a walk only
SetStep_first(acc, match, topic_id, okWrites) ==
    IF match = <<>> \/ acc.written >= 1 THEN acc
    ELSE IF acc.written = okWrites
    THEN [acc EXCEPT !.thrown = TRUE]
    ELSE [acc EXCEPT !.files = set_system_message(@, topic_id, match[1]),
                     !.written = @ + 1]

\* if (match) set_system_message(topic_id, match[1]);
SetStep(acc, match, topic_id, okWrites) ==
    IF match = <<>> THEN acc
    ELSE IF acc.written = okWrites
    THEN [acc EXCEPT !.thrown = TRUE]
    ELSE [acc EXCEPT !.files = set_system_message(@, topic_id, match[1]),
                     !.written = @ + 1]

\* What the command line c did, from the accumulator before and after it.
Noted(c, before, after) ==
    [after EXCEPT !.lines = Append(@, [line |-> c,
                                       resets |-> after.cleared - before.cleared,
                                       writes |-> after.written - before.written])]

\* The body of  for (const c of commands).
ApplyCommand(c, acc, topic_id, okWrites) ==
    Noted(c, acc, SetStep(ClearStep(c, acc), SystemMessageMatch(c), topic_id, okWrites))

RECURSIVE ApplyCommands(_, _, _, _)
ApplyCommands(commands, acc, topic_id, okWrites) ==
    IF commands = <<>> \/ acc.thrown THEN acc
    ELSE ApplyCommands(Tail(commands),
                       ApplyCommand(Head(commands), acc, topic_id, okWrites),
                       topic_id, okWrites)

\* The message pushed for a post of author `author` with prose `text`.
MessageOf(sanitizedName, text) ==
    [role |-> RoleOf(sanitizedName), name |-> sanitizedName, content |-> text]

\* PushStep without the test  text.trim().length > 0
PushStep_always(author, text, acc) ==
    [acc EXCEPT !.messages = Append(@, MessageOf(SanitizedName(author), text))]

\* if (text.trim().length > 0) messages.push(...)
PushStep(author, text, acc) ==
    IF Len(Trim(text)) > 0
    THEN [acc EXCEPT !.messages = Append(@, MessageOf(SanitizedName(author), text))]
    ELSE acc

ProcessMarkdown(author, markdown, acc, topic_id, okWrites) ==
    ApplyCommands(CommandLines(markdown), PushStep(author, ProseText(markdown), acc),
                  topic_id, okWrites)

\* The body of  for (const p of contextPosts).
ProcessPost(p, acc, topic_id, okWrites) ==
    ProcessMarkdown(p.author, convertHtmlToMarkdown(p.content), acc, topic_id, okWrites)

\* log records, after each post, the accumulated list, the topic's file and
\* what the post's command lines did.
Logged(acc, topic_id) ==
    IF acc.thrown THEN acc
    ELSE [acc EXCEPT !.log = Append(@, [messages |-> acc.messages,
                                        file |-> acc.files[topic_id],
                                        lines |-> acc.lines]),
                     !.lines = <<>>]

\* WalkFrom that takes the posts newest first
RECURSIVE WalkFrom_backwards(_, _, _, _, _)
WalkFrom_backwards(posts, i, acc, topic_id, okWrites) ==
    IF i > Len(posts) \/ acc.thrown THEN acc
    ELSE WalkFrom_backwards(posts, i + 1,
                            Logged(ProcessPost(posts[Len(posts) + 1 - i], acc, topic_id, okWrites),
                                   topic_id),
                            topic_id, okWrites)

RECURSIVE WalkFrom(_, _, _, _, _)
WalkFrom(posts, i, acc, topic_id, okWrites) ==
    IF i > Len(posts) \/ acc.thrown THEN acc
    ELSE WalkFrom(posts, i + 1,
                  Logged(ProcessPost(posts[i], acc, topic_id, okWrites), topic_id),
                  topic_id, okWrites)

Walk(posts, files, topic_id, okWrites) ==
    WalkFrom(posts, 1,
             [messages |-> <<>>, files |-> files, cleared |-> 0, written |-> 0, thrown |-> FALSE,
              lines |-> <<>>, log |-> <<>>],
             topic_id, okWrites)

\* generateContent, lines 83-90, on the parsed response: <<>> is undefined
\* or null, <<text>> a string.
StripIfTruthy(content) ==
    IF content # <<>> /\ content[1] # "" THEN <<StripSentinel(content[1])>> ELSE content

\* jsonData.choices[0].message?.content
ContentOf(message) == IF message = <<>> THEN <<>> ELSE message[1].content

ExtractContent(jsonData) == StripIfTruthy(ContentOf(jsonData.choices[1].message))

\* !response that tests for undefined only
Falsy_undefined(response) == response = <<>>

\* !response
Falsy(response) == response = <<>> \/ response[1] = ""

(***************************************************************************)
(* State.                                                                  *)
(***************************************************************************)
Runs == {"r1", "r2"}

VARIABLES
    store,            \* the files of the instruction store, by topic
    character_limit,  \* the module's character_limit
    notification,     \* by run: <<>>, or <<[topicId, postId]>> the mention event
    thepost,          \* by run: the post forum.Post.get answers with
    feed,             \* by run: the posts topic.getLatestPosts delivers, in order
    pc,               \* by run: the await the handler is suspended at
    contextPosts,     \* by run: the handler's contextPosts
    messages,         \* by run: the message list given to generateContent
    jsonData,         \* by run: <<>>, or <<the answer of the completion service>>
    walkLog,          \* by run: the accumulator after each post of the walk
    completionCalls,  \* by run: the requests made to the completion service
    writes,           \* by run: the set_system_message calls that wrote
    replyCalls,       \* by run: the texts given to forum.Post.reply
    posted,           \* by run: the replies the forum accepted
    emitted,          \* by run: the errors given to forum.emit('error', ...)
    result,           \* by run: the handler's promise: pending, resolved, rejected
    reason,           \* by run: what the promise rejected with
    arg,              \* the argument of a direct call of a function of the module
    ret               \* and the values it returned

vars == <<store, character_limit, notification, thepost, feed, pc, contextPosts, messages,
          jsonData, walkLog, completionCalls, writes, replyCalls, posted, emitted, result, reason,
          arg, ret>>

env == <<character_limit, notification, thepost, feed, arg, ret>>

TopicOf(r) == notification[r][1].topicId

(***************************************************************************)
(* The handler (lines 147-239), one action per resumption.                 *)
(***************************************************************************)
\* Catch that runs the handler again
Catch_retry(r, err) ==
    /\ pc' = [pc EXCEPT ![r] = "ready"]
    /\ emitted' = [emitted EXCEPT ![r] = Append(@, err)]
    /\ UNCHANGED <<result, reason>>

\* catch (err): forum.emit('error', err); return Promise.reject(err)
Catch(r, err) ==
    /\ pc' = [pc EXCEPT ![r] = "done"]
    /\ emitted' = [emitted EXCEPT ![r] = Append(@, err)]
    /\ result' = [result EXCEPT ![r] = "rejected"]
    /\ reason' = [reason EXCEPT ![r] = err]

Goto(r, next) ==
    /\ pc' = [pc EXCEPT ![r] = next]
    /\ UNCHANGED <<emitted, result, reason>>

\* CallReply that posts twice
CallReply_twice(r, text) ==
    /\ replyCalls' = [replyCalls EXCEPT ![r] = Append(Append(@, text), text)]
    /\ \/ Goto(r, "reply")
       \/ Catch(r, "Post.reply threw")

\* return forum.Post.reply(...): the call throws, or returns the promise the
\* handler's promise then follows (the promise is not awaited inside the try).
CallReply(r, text) ==
    /\ replyCalls' = [replyCalls EXCEPT ![r] = Append(@, text)]
    /\ \/ Goto(r, "reply")
       \/ Catch(r, "Post.reply threw")

Handler(r) ==
    /\ pc[r] = "ready"
    /\ notification[r] # <<>>
    /\ Goto(r, "getUser")
    /\ UNCHANGED <<store, contextPosts, messages, jsonData, walkLog, completionCalls, writes,
                   replyCalls, posted, env>>

GetUserResolves(r) ==
    /\ pc[r] = "getUser"
    /\ Goto(r, "Post.get")
    /\ UNCHANGED <<store, contextPosts, messages, jsonData, walkLog, completionCalls, writes,
                   replyCalls, posted, env>>

GetUserRejects(r) ==
    /\ pc[r] = "getUser"
    /\ Catch(r, "getUser rejected")
    /\ UNCHANGED <<store, contextPosts, messages, jsonData, walkLog, completionCalls, writes,
                   replyCalls, posted, env>>

PostGetResolves(r) ==
    /\ pc[r] = "Post.get"
    /\ IF Includes(thepost[r].content, "#show_system_message")
       THEN CallReply(r, "#" \o get_system_message(store, TopicOf(r)))
       ELSE Goto(r, "Topic.get") /\ UNCHANGED replyCalls
    /\ UNCHANGED <<store, contextPosts, messages, jsonData, walkLog, completionCalls, writes,
                   posted, env>>

PostGetRejects(r) ==
    /\ pc[r] = "Post.get"
    /\ Catch(r, "Post.get rejected")
    /\ UNCHANGED <<store, contextPosts, messages, jsonData, walkLog, completionCalls, writes,
                   replyCalls, posted, env>>

TopicGetResolves(r) ==
    /\ pc[r] = "Topic.get"
    /\ Goto(r, "getLatestPosts")
    /\ UNCHANGED <<store, contextPosts, messages, jsonData, walkLog, completionCalls, writes,
                   replyCalls, posted, env>>

TopicGetRejects(r) ==
    /\ pc[r] = "Topic.get"
    /\ Catch(r, "Topic.get rejected")
    /\ UNCHANGED <<store, contextPosts, messages, jsonData, walkLog, completionCalls, writes,
                   replyCalls, posted, env>>

\* The callback of getLatestPosts, resumed after await forum.User.get.
AuthorResolves(r) ==
    /\ pc[r] = "getLatestPosts"
    /\ Len(contextPosts[r]) < Len(feed[r])
    /\ LET p == feed[r][Len(contextPosts[r]) + 1]
       IN contextPosts' = [contextPosts EXCEPT
                              ![r] = Append(@, [content |-> p.content, author |-> p.author])]
    /\ Goto(r, "getLatestPosts")
    /\ UNCHANGED <<store, messages, jsonData, walkLog, completionCalls, writes, replyCalls, posted,
                   env>>

AuthorRejects(r) ==
    /\ pc[r] = "getLatestPosts"
    /\ Len(contextPosts[r]) < Len(feed[r])
    /\ Catch(r, "User.get rejected")
    /\ UNCHANGED <<store, contextPosts, messages, jsonData, walkLog, completionCalls, writes,
                   replyCalls, posted, env>>

LatestPostsRejects(r) ==
    /\ pc[r] = "getLatestPosts"
    /\ Catch(r, "getLatestPosts rejected")
    /\ UNCHANGED <<store, contextPosts, messages, jsonData, walkLog, completionCalls, writes,
                   replyCalls, posted, env>>

\* AfterWalk that budgets after the system message is prepended
AfterWalk_budget_last(r, w, topic_id) ==
    /\ store' = w.files
    /\ writes' = [writes EXCEPT ![r] = w.written]
    /\ walkLog' = [walkLog EXCEPT ![r] = w.log]
    /\ IF w.thrown
       THEN /\ Catch(r, "writeFileSync threw")
            /\ UNCHANGED <<messages, completionCalls>>
       ELSE /\ messages' = [messages EXCEPT
                   ![r] = limit_chars(<<format_system_message(w.files, topic_id)>> \o w.messages,
                                      character_limit)]
            /\ completionCalls' = [completionCalls EXCEPT ![r] = @ + 1]
            /\ Goto(r, "fetch")

\* AfterWalk with the system message read before the walk
AfterWalk_stale(r, w, topic_id) ==
    /\ store' = w.files
    /\ writes' = [writes EXCEPT ![r] = w.written]
    /\ walkLog' = [walkLog EXCEPT ![r] = w.log]
    /\ IF w.thrown
       THEN /\ Catch(r, "writeFileSync threw")
            /\ UNCHANGED <<messages, completionCalls>>
       ELSE /\ messages' = [messages EXCEPT
                   ![r] = <<format_system_message(store, topic_id)>>
                          \o limit_chars(w.messages, character_limit)]
            /\ completionCalls' = [completionCalls EXCEPT ![r] = @ + 1]
            /\ Goto(r, "fetch")

\* Lines 219-226 after a walk that ended as w: the budget, the system
\* message, and the request of generateContent; or the catch block.
AfterWalk(r, w, topic_id) ==
    /\ store' = w.files
    /\ writes' = [writes EXCEPT ![r] = w.written]
    /\ walkLog' = [walkLog EXCEPT ![r] = w.log]
    /\ IF w.thrown
       THEN /\ Catch(r, "writeFileSync threw")
            /\ UNCHANGED <<messages, completionCalls>>
       ELSE /\ messages' = [messages EXCEPT
                   ![r] = <<format_system_message(w.files, topic_id)>>
                          \o limit_chars(w.messages, character_limit)]
            /\ completionCalls' = [completionCalls EXCEPT ![r] = @ + 1]
            /\ Goto(r, "fetch")

\* Lines 168-226, up to the fetch of generateContent: no await in between.
LatestPostsResolves(r) ==
    /\ pc[r] = "getLatestPosts"
    /\ Len(contextPosts[r]) = Len(feed[r])
    /\ \E okWrites \in 0..Walk(contextPosts[r], store, TopicOf(r), -1).written :
           AfterWalk(r, Walk(contextPosts[r], store, TopicOf(r), okWrites), TopicOf(r))
    /\ UNCHANGED <<contextPosts, jsonData, replyCalls, posted, env>>

FetchResolves(r) ==
    /\ pc[r] = "fetch"
    /\ Goto(r, "response.text")
    /\ UNCHANGED <<store, contextPosts, messages, jsonData, walkLog, completionCalls, writes,
                   replyCalls, posted, env>>

FetchRejects(r) ==
    /\ pc[r] = "fetch"
    /\ Catch(r, "fetch rejected")
    /\ UNCHANGED <<store, contextPosts, messages, jsonData, walkLog, completionCalls, writes,
                   replyCalls, posted, env>>

TextRejects(r) ==
    /\ pc[r] = "response.text"
    /\ Catch(r, "response.text rejected")
    /\ UNCHANGED <<store, contextPosts, messages, jsonData, walkLog, completionCalls, writes,
                   replyCalls, posted, env>>

\* What the completion service may answer: a body JSON.parse rejects, or the
\* parsed value.  An optional field is <<>> when absent or null.
Bodies ==
    { [json |-> FALSE],
      [json |-> TRUE, choices |-> <<>>],
      [json |-> TRUE, choices |-> <<[message |-> <<>>]>>],
      [json |-> TRUE, choices |-> <<[message |-> <<[content |-> <<>>]>>]>>],
      [json |-> TRUE, choices |-> <<[message |-> <<[content |-> <<"">>]>>]>>],
      [json |-> TRUE, choices |-> <<[message |-> <<[content |-> <<"<|eot_id|>">>]>>]>>],
      [json |-> TRUE, choices |-> <<[message |-> <<[content |-> <<"Sure.<|eot_id|>">>]>>]>>],
      [json |-> TRUE, choices |-> <<[message |-> <<[content |-> <<"Ask @bob!">>]>>]>>] }

\* The handler's lines 227-233 on the response of generateContent.
Respond(r, response) ==
    IF Falsy(response)
    THEN /\ pc' = [pc EXCEPT ![r] = "done"]
         /\ result' = [result EXCEPT ![r] = "resolved"]
         /\ UNCHANGED <<emitted, reason, replyCalls>>
    ELSE CallReply(r, removeMentions(response[1]))

\* generateContent from line 78 on, then the handler's lines 227-233.
TextResolves(r, body) ==
    /\ pc[r] = "response.text"
    /\ IF ~body.json
       THEN Catch(r, "JSON.parse threw") /\ UNCHANGED replyCalls
       ELSE IF body.choices = <<>>
       THEN Catch(r, "TypeError") /\ UNCHANGED replyCalls
       ELSE Respond(r, ExtractContent(body))
    /\ jsonData' = [jsonData EXCEPT ![r] = <<body>>]
    /\ UNCHANGED <<store, contextPosts, messages, walkLog, completionCalls, writes,
                   posted, env>>

ReplyResolves(r) ==
    /\ pc[r] = "reply"
    /\ pc' = [pc EXCEPT ![r] = "done"]
    /\ result' = [result EXCEPT ![r] = "resolved"]
    /\ posted' = [posted EXCEPT ![r] = Append(@, replyCalls[r][Len(replyCalls[r])])]
    /\ UNCHANGED <<store, contextPosts, messages, jsonData, walkLog, completionCalls, writes,
                   replyCalls, emitted, reason, env>>

\* The returned promise rejects: the handler's promise rejects with it, and
\* the catch block, which the promise left behind, does not run.
ReplyRejects(r) ==
    /\ pc[r] = "reply"
    /\ pc' = [pc EXCEPT ![r] = "done"]
    /\ result' = [result EXCEPT ![r] = "rejected"]
    /\ reason' = [reason EXCEPT ![r] = "Post.reply rejected"]
    /\ UNCHANGED <<store, contextPosts, messages, jsonData, walkLog, completionCalls, writes,
                   replyCalls, posted, emitted, env>>

Next ==
    \E r \in Runs :
        \/ Handler(r)
        \/ GetUserResolves(r)
        \/ GetUserRejects(r)
        \/ PostGetResolves(r)
        \/ PostGetRejects(r)
        \/ TopicGetResolves(r)
        \/ TopicGetRejects(r)
        \/ AuthorResolves(r)
        \/ AuthorRejects(r)
        \/ LatestPostsResolves(r)
        \/ LatestPostsRejects(r)
        \/ FetchResolves(r)
        \/ FetchRejects(r)
        \/ TextRejects(r)
        \/ (\E body \in Bodies : TextResolves(r, body))
        \/ ReplyResolves(r)
        \/ ReplyRejects(r)

(***************************************************************************)
(* Initial states.                                                         *)
(***************************************************************************)
SeqsUpTo(S, n) == UNION {[1..k -> S] : k \in 0..n}

\* The posts a thread is made of.
PostHello == [content |-> "<p>hello</p>", author |-> "alice"]
PostSmile == [content |-> "<p>ok <img alt=':smile:' src='s.png'></p>", author |-> "Clippy"]
PostByeClear == [content |-> "<p>bye<br>#clearcontext</p>", author |-> "bob smith"]
PostTerse == [content |-> "<p>#system_message(Be terse.)</p>", author |-> "alice"]
PostClearKind ==
    [content |-> "<p>#clearcontext #system_message (Be kind.)<br>thanks</p>", author |-> "??"]
PostTwoSets ==
    [content |-> "<p>#system_message(Be terse.)</p><p> </p><p>#system_message(Be kind.)</p>",
     author |-> "bob smith"]
PostShow == [content |-> "<p>@clippy #show_system_message</p>", author |-> "alice"]
PostShowSet ==
    [content |-> "<p>#show_system_message #clearcontext #system_message(Be bold.)</p>",
     author |-> "alice"]
PostMention == [content |-> "<p>@clippy hi</p>", author |-> "alice"]

PostCatalog ==
    {PostHello, PostSmile, PostByeClear, PostTerse, PostClearKind, PostTwoSets, PostShowSet}

Triggers == {PostMention, PostShow, PostShowSet}

\* The longest thread of Spec.
MaxPosts == 3

NoRun ==
    /\ pc = [r \in Runs |-> "ready"]
    /\ contextPosts = [r \in Runs |-> <<>>]
    /\ messages = [r \in Runs |-> <<>>]
    /\ jsonData = [r \in Runs |-> <<>>]
    /\ walkLog = [r \in Runs |-> <<>>]
    /\ completionCalls = [r \in Runs |-> 0]
    /\ writes = [r \in Runs |-> 0]
    /\ replyCalls = [r \in Runs |-> <<>>]
    /\ posted = [r \in Runs |-> <<>>]
    /\ emitted = [r \in Runs |-> <<>>]
    /\ result = [r \in Runs |-> "pending"]
    /\ reason = [r \in Runs |-> ""]

\* One mention, in topic t1, of a thread of up to MaxPosts posts.
Init ==
    /\ NoRun
    /\ store \in {[t \in Topics |-> IF t = "t1" THEN f ELSE <<>>] : f \in {<<>>, <<"Be brief.">>}}
    /\ character_limit = default_character_limit
    /\ notification = [r \in Runs |-> IF r = "r1" THEN <<[topicId |-> "t1", postId |-> "p1"]>>
                                      ELSE <<>>]
    /\ \E t \in Triggers : thepost = [r \in Runs |-> t]
    /\ \E f \in SeqsUpTo(PostCatalog, MaxPosts) :
           feed = [r \in Runs |-> IF r = "r1" THEN f ELSE <<>>]
    /\ arg = <<>>
    /\ ret = <<>>

Spec == Init /\ [][Next]_vars

(***************************************************************************)
(* A mention in a long thread, under a small character limit.              *)
(***************************************************************************)
\* The longest thread of SpecLong.
MaxLongPosts == 7

\* The values of OPENROUTER_CHARACTER_LIMIT tried.
CharacterLimits == {0, 20, 30, default_character_limit}

LongThreads ==
    UNION {[1..k -> {PostHello, PostSmile}] : k \in (minMessageCount + 1)..MaxLongPosts}

InitLong ==
    /\ NoRun
    /\ store \in {[t \in Topics |-> IF t = "t1" THEN f ELSE <<>>] : f \in {<<>>, <<"Be brief.">>}}
    /\ character_limit \in CharacterLimits
    /\ notification = [r \in Runs |-> IF r = "r1" THEN <<[topicId |-> "t1", postId |-> "p1"]>>
                                      ELSE <<>>]
    /\ thepost = [r \in Runs |-> PostMention]
    /\ \E f \in LongThreads : feed = [r \in Runs |-> IF r = "r1" THEN f ELSE <<>>]
    /\ arg = <<>>
    /\ ret = <<>>

SpecLong == InitLong /\ [][Next]_vars

(***************************************************************************)
(* Two mentions handled at the same time, in the same topic or in two.     *)
(* Each run is delivered the posts its topic had when it asked.            *)
(***************************************************************************)
FirstThreads == {<<PostTerse>>, <<PostHello, PostClearKind>>}

SecondThreads == {<<PostHello>>, <<PostTwoSets>>}

InitConcurrent ==
    /\ NoRun
    /\ store \in [Topics -> {<<>>, <<"Be brief.">>}]
    /\ character_limit = default_character_limit
    /\ \E t \in Topics :
           notification = [r \in Runs |-> IF r = "r1" THEN <<[topicId |-> "t1", postId |-> "p1"]>>
                                         ELSE <<[topicId |-> t, postId |-> "p2"]>>]
    /\ \E t \in {PostMention, PostShow} :
           thepost = [r \in Runs |-> IF r = "r1" THEN PostMention ELSE t]
    /\ \E f \in FirstThreads, g \in SecondThreads :
           feed = [r \in Runs |-> IF r = "r1" THEN f ELSE g]
    /\ arg = <<>>
    /\ ret = <<>>

SpecConcurrent == InitConcurrent /\ [][Next]_vars

(***************************************************************************)
(* Two mentions whose every external call (the forum's fetches, the        *)
(* completion request, the reply) eventually resolves or rejects: a run    *)
(* that can take a step eventually takes one.                              *)
(***************************************************************************)
\* The steps of run r.
RunStep(r) ==
    \/ Handler(r)
    \/ GetUserResolves(r)
    \/ GetUserRejects(r)
    \/ PostGetResolves(r)
    \/ PostGetRejects(r)
    \/ TopicGetResolves(r)
    \/ TopicGetRejects(r)
    \/ AuthorResolves(r)
    \/ AuthorRejects(r)
    \/ LatestPostsRejects(r)
    \/ FetchResolves(r)
    \/ FetchRejects(r)
    \/ TextRejects(r)
    \/ (\E body \in Bodies : TextResolves(r, body))
    \/ ReplyResolves(r)
    \/ ReplyRejects(r)
    \/ LatestPostsResolves(r)

\* The longest thread of SpecLive.
MaxLivePosts == 7

LiveThreads == {<<PostTerse>>, [i \in 1..MaxLivePosts |-> PostHello]}

InitLive ==
    /\ NoRun
    /\ store = [t \in Topics |-> <<>>]
    /\ character_limit \in {30, default_character_limit}
    /\ \E t \in Topics :
           notification = [r \in Runs |-> IF r = "r1" THEN <<[topicId |-> "t1", postId |-> "p1"]>>
                                         ELSE <<[topicId |-> t, postId |-> "p2"]>>]
    /\ \E t \in {PostMention, PostShow} :
           thepost = [r \in Runs |-> IF r = "r1" THEN PostMention ELSE t]
    /\ \E f \in LiveThreads, g \in SecondThreads :
           feed = [r \in Runs |-> IF r = "r1" THEN f ELSE g]
    /\ arg = <<>>
    /\ ret = <<>>

SpecLive == InitLive /\ [][Next]_vars /\ \A r \in Runs : WF_vars(RunStep(r))

(***************************************************************************)
(* Direct calls of limit_chars: the budgeter on its own.                   *)
(***************************************************************************)
\* The longest message list given to limit_chars.
MaxMessages == 7

\* The largest character limit given to limit_chars.
MaxLimit == 3

BudgetContents == {"", "a", "bb"}

BudgetMessage(c) == [role |-> "user", name |-> "alice", content |-> c]

\* s repeated n times.
RECURSIVE Repeat(_, _)
Repeat(s, n) ==
    IF n = 0 THEN ""
    ELSE IF n % 2 = 1 THEN s \o Repeat(s, n - 1)
    ELSE Repeat(s \o s, n \div 2)

\* Six posts of 10,000 characters each, under the default limit.
SixLongMessages ==
    [messages |-> [i \in 1..6 |-> BudgetMessage(Repeat(CharAt(DigitChars, i), 10000))],
     limit |-> default_character_limit]

Idle ==
    /\ NoRun
    /\ store = [t \in Topics |-> <<>>]
    /\ character_limit = default_character_limit
    /\ notification = [r \in Runs |-> <<>>]
    /\ thepost = [r \in Runs |-> PostMention]
    /\ feed = [r \in Runs |-> <<>>]

handlerVars == <<store, character_limit, notification, thepost, feed, pc, contextPosts,
                 messages, jsonData, walkLog, completionCalls, writes, replyCalls, posted,
                 emitted, result, reason>>

InitBudget ==
    /\ Idle
    /\ arg \in {[messages |-> m, limit |-> l] :
                   m \in SeqsUpTo({BudgetMessage(c) : c \in BudgetContents}, MaxMessages),
                   l \in 0..MaxLimit}
               \cup {SixLongMessages}
    /\ ret = <<>>

\* messages = limit_chars(messages, limit)
CallLimitChars ==
    /\ ret = <<>>
    /\ ret' = <<limit_chars(arg.messages, arg.limit)>>
    /\ UNCHANGED <<arg, handlerVars>>

\* and once more, on what it returned
CallLimitCharsAgain ==
    /\ Len(ret) = 1
    /\ ret' = Append(ret, limit_chars(ret[1], arg.limit))
    /\ UNCHANGED <<arg, handlerVars>>

NextBudget == CallLimitChars \/ CallLimitCharsAgain

SpecBudget == InitBudget /\ [][NextBudget]_vars

(***************************************************************************)
(* Direct calls of the instruction store.  arg.sets is the sequence of     *)
(* set_system_message calls made so far, arg.asked the topic of the last   *)
(* get_system_message call and ret what it returned.                       *)
(***************************************************************************)
\* The longest sequence of set_system_message calls.
MaxSets == 3

StoreTexts == {"", "Be terse.", "Be kind."}

InitStore ==
    /\ Idle
    /\ arg = [sets |-> <<>>, asked |-> <<>>]
    /\ ret = <<>>

SetCall(topic_id, message) ==
    /\ Len(arg.sets) < MaxSets
    /\ store' = set_system_message(store, topic_id, message)
    /\ arg' = [sets |-> Append(arg.sets, [topic_id |-> topic_id, message |-> message]),
               asked |-> <<>>]
    /\ ret' = <<>>
    /\ UNCHANGED <<character_limit, notification, thepost, feed, pc, contextPosts, messages,
                   jsonData, walkLog, completionCalls, writes, replyCalls, posted, emitted,
                   result, reason>>

GetCall(topic_id) ==
    /\ ret' = <<get_system_message(store, topic_id)>>
    /\ arg' = [arg EXCEPT !.asked = <<topic_id>>]
    /\ UNCHANGED handlerVars

NextStore ==
    \/ \E topic_id \in Topics, message \in StoreTexts : SetCall(topic_id, message)
    \/ \E topic_id \in Topics : GetCall(topic_id)

SpecStore == InitStore /\ [][NextStore]_vars

(***************************************************************************)
(* One post pushed on its own: lines 191-203 on an author and a prose      *)
(* text.  arg is the post's author and text, ret the messages pushed.      *)
(***************************************************************************)
AuthorPrefixes == {"", " ", "@", "x"}

AuthorCores ==
    {"", "??", "user", "bob", "clip", "clippy", "Clippy", "CLIPPY", "cli ppy",
     Repeat("a", 63)}

AuthorSuffixes == {"", "!", "_", "-1"}

Authors == {a \o b \o c : a \in AuthorPrefixes, b \in AuthorCores, c \in AuthorSuffixes}

ProseTexts == {"", " \n", "hi"}

EmptyAcc ==
    [messages |-> <<>>, files |-> store, cleared |-> 0, written |-> 0, thrown |-> FALSE,
     lines |-> <<>>, log |-> <<>>]

InitNames ==
    /\ Idle
    /\ arg \in {[author |-> a, text |-> t] : a \in Authors, t \in ProseTexts}
    /\ ret = <<>>

CallPush ==
    /\ ret = <<>>
    /\ ret' = <<PushStep(arg.author, arg.text, EmptyAcc).messages>>
    /\ UNCHANGED <<arg, handlerVars>>

NextNames == CallPush

SpecNames == InitNames /\ [][NextNames]_vars

(***************************************************************************)
(* The line classification on its own: lines 175-189 on a markdown text.   *)
(* arg is the text, ret the commands and the joined prose.                 *)
(***************************************************************************)
\* The longest markdown text classified.
MaxBlockLen == 4

BlockChars == {"a", "#", " ", "\t", "\n"}

RECURSIVE StringsUpTo(_)
StringsUpTo(n) ==
    IF n = 0 THEN {""}
    ELSE StringsUpTo(n - 1) \cup {t \o c : t \in StringsUpTo(n - 1), c \in BlockChars}

InitLines ==
    /\ Idle
    /\ arg \in {[markdown |-> m] : m \in StringsUpTo(MaxBlockLen)}
    /\ ret = <<>>

CallClassify ==
    /\ ret = <<>>
    /\ ret' = <<[commands |-> CommandLines(arg.markdown), text |-> ProseText(arg.markdown)]>>
    /\ UNCHANGED <<arg, handlerVars>>

NextLines == CallClassify

SpecLines == InitLines /\ [][NextLines]_vars

(***************************************************************************)
(* The claims.                                                             *)
(***************************************************************************)
\* The texts of the #system_message directives among command lines, in order.
RECURSIVE MatchesOf(_)
MatchesOf(commands) ==
    IF commands = <<>> THEN <<>>
    ELSE SystemMessageMatch(Head(commands)) \o MatchesOf(Tail(commands))

\* What the walk reads from each post content of the model.
Parsed(markdown) ==
    [markdown |-> markdown,
     prose |-> ProseText(markdown),
     hasProse |-> Len(Trim(ProseText(markdown))) > 0,
     clears |-> \E i \in 1..Len(CommandLines(markdown)) :
                    IsClearContext(CommandLines(markdown)[i]),
     setTexts |-> MatchesOf(CommandLines(markdown))]

PageInfo == [h \in {e.html : e \in Pages} |-> Parsed(convertHtmlToMarkdown(h))]

Markdown(p) == PageInfo[p.content].markdown

HasClearContext(p) == PageInfo[p.content].clears

HasProse(p) == PageInfo[p.content].hasProse

OwnMessage(p) == MessageOf(SanitizedName(p.author), PageInfo[p.content].prose)

\* C1: right after the walk has processed a post that carries #clearcontext
\* and contributes non-blank prose, the accumulated message list holds that
\* post's own message and none of the messages of earlier posts.
C1_ClearKeepsOwnMessage ==
    \A r \in Runs : \A k \in 1..Len(walkLog[r]) :
        (HasClearContext(contextPosts[r][k]) /\ HasProse(contextPosts[r][k]))
            => walkLog[r][k].messages = <<OwnMessage(contextPosts[r][k])>>

\* C2: whenever a step of a run has failed, the failure was given to
\* forum.emit('error', ...), once, and the handler's promise rejected with it.
C2_FailureEmittedAndRejected ==
    \A r \in Runs :
        reason[r] # "" => (result[r] = "rejected" /\ emitted[r] = <<reason[r]>>)

\* An '@' at the start of the text or after a non-word character, with an
\* identifier character right after it.
LiveMention(text) ==
    \E p \in 1..(Len(text) - 1) :
        /\ CharAt(text, p) = "@"
        /\ (p = 1 \/ CharAt(text, p - 1) \notin WordChars)
        /\ CharAt(text, p + 1) \in IdChars

IsDiagnostic(r) == Includes(thepost[r].content, "#show_system_message")

\* C3: the reply posted for a generated text is the sanitizer's output for it,
\* and no '@' that begins a mention in it is followed by an identifier character.
C3_ReplyHasNoLiveMention ==
    \A r \in Runs :
        (~IsDiagnostic(r) /\ replyCalls[r] # <<>>)
            => /\ replyCalls[r][1] = removeMentions(ExtractContent(jsonData[r][1])[1])
               /\ ~LiveMention(replyCalls[r][1])

RECURSIVE TotalCharacters(_)
TotalCharacters(ms) ==
    IF ms = <<>> THEN 0 ELSE Len(Head(ms).content) + TotalCharacters(Tail(ms))

WithinBudget(ms, limit) == TotalCharacters(ms) <= limit \/ Len(ms) <= 5

Suffix(ms, n) == SubSeq(ms, Len(ms) - n + 1, Len(ms))

C6_Idempotent ==
    Len(ret) = 2 => ret[2] = ret[1]

C6_Witness ==
    /\ Len(ret) = 2
    /\ Len(ret[1]) < Len(arg.messages)
    /\ Len(ret[1]) > 5

StoredInstruction(topic_id) ==
    IF store[topic_id] = <<>> THEN default_system_message ELSE store[topic_id][1]

PastPostGet(r) ==
    \/ pc[r] = "reply"
    \/ pc[r] = "done" /\ reason[r] \notin {"getUser rejected", "Post.get rejected"}

\* C7: a run whose triggering post contains #show_system_message collects no
\* context, writes no instruction, calls the completion service never, and
\* once the post is fetched has made exactly one reply: '#' and the topic's
\* stored instruction (the override if there is one, else the default).
C7_DiagnosticShortCircuit ==
    \A r \in Runs :
        IsDiagnostic(r) =>
            /\ pc[r] \in {"ready", "getUser", "Post.get", "reply", "done"}
            /\ contextPosts[r] = <<>>
            /\ walkLog[r] = <<>>
            /\ writes[r] = 0
            /\ messages[r] = <<>>
            /\ completionCalls[r] = 0
            /\ jsonData[r] = <<>>
            /\ replyCalls[r] = IF PastPostGet(r)
                               THEN <<"#" \o StoredInstruction(TopicOf(r))>>
                               ELSE <<>>

C7_Witness ==
    /\ thepost["r1"] = PostShowSet
    /\ feed["r1"] = <<PostTerse, PostByeClear>>
    /\ store["t1"] = <<"Be brief.">>
    /\ pc["r1"] = "done"
    /\ posted["r1"] = <<"#Be brief.">>

FirstChoiceContent(r) ==
    IF jsonData[r][1].choices[1].message = <<>> THEN <<>>
    ELSE jsonData[r][1].choices[1].message[1].content

\* The completion service answered with a first choice whose content is
\* absent, empty, or empty once the trailing sentinel is stripped.
EmptyAnswer(r) ==
    /\ jsonData[r] # <<>>
    /\ jsonData[r][1].json
    /\ jsonData[r][1].choices # <<>>
    /\ \/ FirstChoiceContent(r) = <<>>
       \/ FirstChoiceContent(r)[1] = ""
       \/ StripSentinel(FirstChoiceContent(r)[1]) = ""

\* C8: after an empty answer the run has ended with no reply, no error event
\* and a resolved promise.
C8_EmptyAnswerIsSilent ==
    \A r \in Runs :
        EmptyAnswer(r) =>
            /\ pc[r] = "done"
            /\ result[r] = "resolved"
            /\ replyCalls[r] = <<>>
            /\ posted[r] = <<>>
            /\ emitted[r] = <<>>

C8_Witness ==
    /\ jsonData["r1"] # <<>>
    /\ jsonData["r1"][1].json
    /\ jsonData["r1"][1].choices # <<>>
    /\ FirstChoiceContent("r1") = <<"<|eot_id|>">>
    /\ pc["r1"] = "done"
    /\ result["r1"] = "resolved"
    /\ posted["r1"] = <<>>

\* The failures of the steps before the reply step.
EarlyFailures ==
    {"getUser rejected", "Post.get rejected", "Topic.get rejected", "User.get rejected",
     "getLatestPosts rejected", "writeFileSync threw", "fetch rejected",
     "response.text rejected", "JSON.parse threw", "TypeError"}

\* C9: a run makes at most one reply; none when a step before the reply step
\* failed; and one only on the diagnostic short-circuit or after the
\* completion service returned non-empty content.
C9_AtMostOneReply ==
    \A r \in Runs :
        /\ Len(replyCalls[r]) <= 1
        /\ posted[r] \in {<<>>, replyCalls[r]}
        /\ reason[r] \in EarlyFailures => replyCalls[r] = <<>>
        /\ (replyCalls[r] # <<>> /\ ~IsDiagnostic(r))
               => /\ completionCalls[r] = 1
                  /\ jsonData[r] # <<>>
                  /\ ~EmptyAnswer(r)

C9_Witness ==
    /\ reason["r1"] = "response.text rejected"
    /\ completionCalls["r1"] = 1
    /\ Len(contextPosts["r1"]) = MaxPosts
    /\ pc["r1"] = "done"
    /\ replyCalls["r1"] = <<>>

\* The message of the last set_system_message call for the topic, if any.
RECURSIVE LastSet(_, _)
LastSet(sets, topic_id) ==
    IF sets = <<>> THEN <<>>
    ELSE IF sets[Len(sets)].topic_id = topic_id THEN <<sets[Len(sets)].message>>
    ELSE LastSet(SubSeq(sets, 1, Len(sets) - 1), topic_id)

\* C10: get_system_message returns the default for a topic never written, and
\* otherwise the text of the most recent set_system_message for that topic.
C10_GetReturnsLastSet ==
    arg.asked # <<>> =>
        ret = IF LastSet(arg.sets, arg.asked[1]) = <<>>
              THEN <<default_system_message>>
              ELSE LastSet(arg.sets, arg.asked[1])

C10_Witness ==
    /\ Len(arg.sets) = 3
    /\ arg.sets[1].topic_id = "t1"
    /\ arg.sets[2].topic_id = "t1"
    /\ arg.sets[3].topic_id = "t2"
    /\ arg.sets[1].message # arg.sets[2].message
    /\ arg.asked = <<"t1">>
    /\ ret = <<arg.sets[2].message>>

\* The texts of the #system_message directives of a post, in line order.
SetTexts(p) == PageInfo[p.content].setTexts

\* The texts of the #system_message directives of a thread, in walk order.
RECURSIVE ThreadSetTexts(_)
ThreadSetTexts(posts) ==
    IF posts = <<>> THEN <<>> ELSE SetTexts(Head(posts)) \o ThreadSetTexts(Tail(posts))

\* The store after a walk over posts for the topic: the last directive's text
\* written to the topic's file, and nothing else changed.
StoreAfterWalk(files, posts, topic_id) ==
    LET texts == ThreadSetTexts(posts)
    IN IF texts = <<>> THEN files
       ELSE [files EXCEPT ![topic_id] = <<texts[Len(texts)]>>]

\* The step of run r that walks its posts and starts the completion request.
WalkCompletes(r) == pc[r] = "getLatestPosts" /\ pc'[r] = "fetch"

\* A step of run r after its walk.
StepAfterWalk(r) == pc[r] \in {"fetch", "response.text", "reply"} /\ pc'[r] # pc[r]

\* C11: a walk that completes leaves the topic's override equal to the text of
\* the last #system_message directive in walk order (the store unchanged when
\* there is none), and no later step of the run, whether it replies, ends
\* silently or fails, changes the store.
C11_LastSetInstructionWins ==
    [][\A r \in Runs :
          /\ WalkCompletes(r) =>
                 store' = StoreAfterWalk(store, contextPosts[r], TopicOf(r))
          /\ StepAfterWalk(r) => store' = store]_vars

C11_Witness ==
    /\ feed["r1"] = <<PostTerse, PostTwoSets, PostHello>>
    /\ writes["r1"] = 3
    /\ store["t1"] = <<"Be kind.">>
    /\ pc["r1"] = "done"
    /\ reason["r1"] = "fetch rejected"

\* The author's username without the characters outside [a-zA-Z0-9_-].
RECURSIVE Stripped(_)
Stripped(author) ==
    IF author = "" THEN ""
    ELSE IF SubSeq(author, 1, 1) \in IdChars
    THEN SubSeq(author, 1, 1) \o Stripped(SubSeq(author, 2, Len(author)))
    ELSE Stripped(SubSeq(author, 2, Len(author)))

Pushed == ret # <<>> /\ ret[1] # <<>>

WellFormedName(name) ==
    /\ Len(name) >= 1
    /\ Len(name) <= 64
    /\ \A i \in 1..Len(name) : SubSeq(name, i, i) \in IdChars

\* C12 as stated: the name of a pushed message is made of [a-zA-Z0-9_-], has
\* 1 to 64 characters, and is 'user' exactly when the stripped username is empty.
C12_PlaceholderExactlyWhenEmpty ==
    Pushed =>
        /\ WellFormedName(ret[1][1].name)
        /\ (ret[1][1].name = "user") <=> (Stripped(arg.author) = "")

\* C12, amended: the name of a pushed message is made of [a-zA-Z0-9_-], has
\* 1 to 64 characters, is 'user' when the stripped username is empty, and is
\* otherwise the first 64 characters of the stripped username.
C12_NameIsStrippedOrPlaceholder ==
    Pushed =>
        /\ WellFormedName(ret[1][1].name)
        /\ ret[1][1].name = IF Stripped(arg.author) = "" THEN "user"
                            ELSE SubSeq(Stripped(arg.author), 1, Min(64, Len(Stripped(arg.author))))

C12_Witness ==
    /\ Pushed
    /\ Len(Stripped(arg.author)) = 65
    /\ Len(ret[1][1].name) = 64

\* The bot's reserved identity 'clippy' in every letter case.
ClippySpellings ==
    {c \o l \o i \o p \o q \o y :
        c \in {"c", "C"}, l \in {"l", "L"}, i \in {"i", "I"},
        p \in {"p", "P"}, q \in {"p", "P"}, y \in {"y", "Y"}}

\* C18: a pushed message has role assistant if and only if its sanitized name
\* is 'clippy' in some letter case, and role user otherwise.
C18_AssistantIffClippy ==
    Pushed =>
        ret[1][1].role = IF ret[1][1].name \in ClippySpellings THEN "assistant" ELSE "user"

\* an author that is not the bot's username but sanitizes to it
C18_Witness ==
    /\ Pushed
    /\ arg.author = "@CLIPPY!"
    /\ ret[1][1].name = "CLIPPY"
    /\ ret[1][1].role = "assistant"

\* The accumulated list before the k-th post of run r's walk.
MessagesBefore(r, k) == IF k = 1 THEN <<>> ELSE walkLog[r][k - 1].messages

\* C13: every message of a request to the completion service has non-empty
\* content, and a post whose prose is empty or only white space adds no
\* message: after it the list is what it was, or empty if the post cleared it.
C13_NoEmptyContent ==
    \A r \in Runs :
        /\ \A i \in 1..Len(messages[r]) : messages[r][i].content # ""
        /\ \A k \in 1..Len(walkLog[r]) :
               ~HasProse(contextPosts[r][k])
                   => walkLog[r][k].messages \in {MessagesBefore(r, k), <<>>}

\* a post whose prose is the white space between its two directives
C13_Witness ==
    /\ feed["r1"] = <<PostHello, PostTwoSets, PostTerse>>
    /\ pc["r1"] = "fetch"
    /\ Len(messages["r1"]) = 2
    /\ messages["r1"][2].content = "hello"
    /\ PageInfo[PostTwoSets.content].prose = "\n \n"

\* The lines of a text block.
RECURSIVE LinesOf(_)
LinesOf(block) ==
    IF \A i \in 1..Len(block) : SubSeq(block, i, i) # "\n" THEN <<block>>
    ELSE LET n == CHOOSE i \in 1..Len(block) :
                      SubSeq(block, i, i) = "\n" /\ \A j \in 1..(i - 1) : SubSeq(block, j, j) # "\n"
         IN <<SubSeq(block, 1, n - 1)>> \o LinesOf(SubSeq(block, n + 1, Len(block)))

\* A token of the line, delimited by white space, starts with '#'.
HasMarkerToken(line) ==
    \E i \in 1..Len(line) :
        /\ SubSeq(line, i, i) = "#"
        /\ (i = 1 \/ SubSeq(line, i - 1, i - 1) \in {" ", "\t"})

HasNoMarkerToken(line) == ~HasMarkerToken(line)

RECURSIVE JoinedWithNewlines(_)
JoinedWithNewlines(lines) ==
    IF lines = <<>> THEN ""
    ELSE IF Len(lines) = 1 THEN lines[1]
    ELSE lines[1] \o "\n" \o JoinedWithNewlines(Tail(lines))

\* C14: the directive lines of a text block are its lines with a
\* white-space-delimited token that starts with '#', in order; every other line
\* is prose; and the prose content is the prose lines joined with newlines in
\* their original order.
C14_ClassifiedByWhitespaceTokens ==
    ret # <<>> =>
        /\ ret[1].commands = SelectSeq(LinesOf(arg.markdown), HasMarkerToken)
        /\ ret[1].text = JoinedWithNewlines(SelectSeq(LinesOf(arg.markdown), HasNoMarkerToken))

\* The list run r's walk ended with.
WalkedMessages(r) ==
    IF walkLog[r] = <<>> THEN <<>> ELSE walkLog[r][Len(walkLog[r])].messages

\* C15: a request to the completion service has the system message first,
\* made of the topic's instruction, and only user and assistant messages after
\* it; those are the longest suffix of the walked messages within the budget
\* (or of at most 5 messages), counted without the system message.
C15_OneSystemMessageFirst ==
    \A r \in Runs :
        messages[r] # <<>> =>
            /\ messages[r][1].role = "system"
            /\ messages[r][1].content =
                   StoredInstruction(TopicOf(r)) \o "\n" \o system_message_complement
            /\ \A i \in 2..Len(messages[r]) : messages[r][i].role \in {"user", "assistant"}
            /\ \E n \in 0..Len(WalkedMessages(r)) :
                   /\ Tail(messages[r]) = Suffix(WalkedMessages(r), n)
                   /\ WithinBudget(Tail(messages[r]), character_limit)
                   /\ \A m \in (n + 1)..Len(WalkedMessages(r)) :
                          ~WithinBudget(Suffix(WalkedMessages(r), m), character_limit)

\* seven posts of 5 characters under limit 30: the oldest message is dropped
\* and the system message, longer than the limit by itself, stays
C15_Witness ==
    /\ character_limit = 30
    /\ feed["r1"] = [i \in 1..7 |-> PostHello]
    /\ pc["r1"] = "fetch"
    /\ Len(messages["r1"]) = 7
    /\ Len(messages["r1"][1].content) > 30

\* C16: no command line of a walked post makes both a reset of the
\* accumulated list and a write of the instruction store.
C16_OneDirectiveKindPerLine ==
    \A r \in Runs : \A k \in 1..Len(walkLog[r]) :
        \A i \in 1..Len(walkLog[r][k].lines) :
            ~(walkLog[r][k].lines[i].resets > 0 /\ walkLog[r][k].lines[i].writes > 0)

\* The messages of the posts with non-blank prose among posts[from..to].
RECURSIVE ProseMessages(_, _, _)
ProseMessages(posts, from, to) ==
    IF from > to THEN <<>>
    ELSE (IF HasProse(posts[from]) THEN <<OwnMessage(posts[from])>> ELSE <<>>)
         \o ProseMessages(posts, from + 1, to)

\* The position of the last post with #clearcontext among posts[1..k], or 0.
LastClearUpTo(posts, k) ==
    LET S == {j \in 1..k : HasClearContext(posts[j])}
    IN IF S = {} THEN 0 ELSE CHOOSE j \in S : \A o \in S : j >= o

\* C17: after each post of the walk, the accumulated list ends with the
\* messages of the posts that came after the last #clearcontext post and have
\* non-blank prose, in walk order.
C17_ClearKeepsLaterPosts ==
    \A r \in Runs : \A k \in 1..Len(walkLog[r]) :
        LET kept == ProseMessages(contextPosts[r], LastClearUpTo(contextPosts[r], k) + 1, k)
        IN /\ Len(kept) <= Len(walkLog[r][k].messages)
           /\ Suffix(walkLog[r][k].messages, Len(kept)) = kept

C17_Witness ==
    /\ feed["r1"] = <<PostByeClear, PostHello, PostSmile>>
    /\ pc["r1"] = "fetch"
    /\ Len(messages["r1"]) = 3
    /\ messages["r1"][2].content = "hello"
    /\ messages["r1"][3].content = "ok smile"

\* The topic of run r's notification.
NotifiedTopic(r) == notification[r][1].topicId

\* The instruction a file of the store stands for.
InstructionIn(file) == IF file = <<>> THEN default_system_message ELSE file[1]

SystemContent(instruction) == instruction \o "\n" \o system_message_complement

\* A step taken by run r.
StepOf(r) == pc'[r] # pc[r] \/ contextPosts'[r] # contextPosts[r]

\* The step of run r that answers #show_system_message.
ShowsInstruction(r) == pc[r] = "Post.get" /\ replyCalls'[r] # replyCalls[r]

\* C19: a step of a run leaves the override of every topic other than the
\* run's own unchanged, and the instruction the run sends or shows is made
\* from its own topic's override and its own posts alone.
C19_TopicIsolation ==
    [][\A r \in Runs :
          StepOf(r) =>
              /\ \A t \in Topics \ {NotifiedTopic(r)} : store'[t] = store[t]
              /\ WalkCompletes(r) =>
                     messages'[r][1].content =
                         SystemContent(
                             IF ThreadSetTexts(contextPosts[r]) = <<>>
                             THEN InstructionIn(store[NotifiedTopic(r)])
                             ELSE ThreadSetTexts(contextPosts[r])[Len(ThreadSetTexts(contextPosts[r]))])
              /\ ShowsInstruction(r) =>
                     replyCalls'[r] = <<"#" \o InstructionIn(store[NotifiedTopic(r)])>>]_vars

\* two runs in two topics, each having written its own topic's override
C19_Witness ==
    /\ NotifiedTopic("r1") = "t1"
    /\ NotifiedTopic("r2") = "t2"
    /\ writes["r1"] = 1
    /\ writes["r2"] = 2
    /\ store = [t \in Topics |-> IF t = "t1" THEN <<"Be terse.">> ELSE <<"Be kind.">>]
    /\ pc["r1"] = "fetch"
    /\ pc["r2"] = "fetch"

\* C20: the system instruction a run sends is the store's value for its topic
\* right after the run's own walk, the text of the last #system_message
\* directive of its posts when they have one, whatever the other run writes;
\* and the request, once made, does not change.
C20_SendsOwnWalkInstruction ==
    [][\A r \in Runs :
          /\ WalkCompletes(r) =>
                 /\ messages'[r][1].content =
                        SystemContent(InstructionIn(store'[NotifiedTopic(r)]))
                 /\ ThreadSetTexts(contextPosts[r]) # <<>> =>
                        messages'[r][1].content =
                            SystemContent(ThreadSetTexts(contextPosts[r])[
                                              Len(ThreadSetTexts(contextPosts[r]))])
          /\ pc[r] \in {"fetch", "response.text", "reply", "done"} =>
                 messages'[r] = messages[r]]_vars

\* two runs in one topic: the first sent its own directive's text and the
\* second has since overwritten the override
C20_Witness ==
    /\ NotifiedTopic("r1") = "t1"
    /\ NotifiedTopic("r2") = "t1"
    /\ pc["r1"] = "response.text"
    /\ pc["r2"] = "fetch"
    /\ messages["r1"][1].content = SystemContent("Be terse.")
    /\ messages["r2"][1].content = SystemContent("Be kind.")
    /\ store["t1"] = <<"Be kind.">>

\* The stages of a run, in order.
Stages ==
    <<"ready", "getUser", "Post.get", "Topic.get", "getLatestPosts", "fetch", "response.text",
      "reply", "done">>

StageNumber(stage) == CHOOSE i \in 1..Len(Stages) : Stages[i] = stage

\* How run r ended: a reply posted (generated or diagnostic), nothing posted
\* after an empty completion, or a failure the handler's promise rejected with.
Terminal(r) ==
    /\ pc[r] = "done"
    /\ \/ result[r] = "resolved" /\ posted[r] = replyCalls[r] /\ Len(posted[r]) = 1
       \/ result[r] = "resolved" /\ replyCalls[r] = <<>> /\ EmptyAnswer(r)
       \/ result[r] = "rejected" /\ reason[r] # "" /\ posted[r] = <<>>

\* C21: every run eventually ends, in one of its terminal states; a run never
\* goes back to an earlier stage, stays at a stage only to collect one more
\* post of its thread, and takes no step once it has ended.
C21_EveryRunTerminates ==
    /\ \A r \in Runs : <>Terminal(r)
    /\ [][\A r \in Runs :
              /\ StageNumber(pc'[r]) >= StageNumber(pc[r])
              /\ (StepOf(r) /\ pc'[r] = pc[r]) =>
                     /\ pc[r] = "getLatestPosts"
                     /\ Len(contextPosts'[r]) = Len(contextPosts[r]) + 1
                     /\ Len(contextPosts'[r]) <= Len(feed[r])
              /\ pc[r] = "done" => (Terminal(r) /\ Terminal(r)')]_vars

\* both runs ended, the first after its budget dropped the oldest of seven
\* messages and the reply was posted, the second on a failure
C21_Witness ==
    /\ Terminal("r1")
    /\ Terminal("r2")
    /\ character_limit = 30
    /\ Len(contextPosts["r1"]) = 7
    /\ Len(messages["r1"]) = 7
    /\ Len(posted["r1"]) = 1
    /\ reason["r2"] = "fetch rejected"

====
